---- MODULE Spec2Model ----
(***************************************************************************)
(* State-machine model of src/app.py: the Flask portal's relational tables *)
(* (AdminUser, Document, JobApplication, Feedback, Review, Notification),  *)
(* the browser sessions, and one action per route handler.                 *)
(*                                                                         *)
(* Persistence semantics the handlers rely on and the model reproduces:    *)
(*  - SQLite behind SQLAlchemy; `id INTEGER PRIMARY KEY` without           *)
(*    AUTOINCREMENT, so a new row gets max(id)+1 and the id of a deleted   *)
(*    last row is handed out again;                                        *)
(*  - foreign keys are declared but SQLite does not enforce them (no       *)
(*    PRAGMA foreign_keys), so dangling author/approver ids can be stored; *)
(*  - AdminUser.username is UNIQUE: a commit that would duplicate it       *)
(*    raises IntegrityError, the request ends with a 500 response and the  *)
(*    whole unit of work is rolled back;                                   *)
(*  - changes made to ORM objects without a commit are discarded when the  *)
(*    request ends.                                                        *)
(* News and SiteInfo are not modelled: no handler reads them to decide     *)
(* anything about the tables above.                                        *)
(***************************************************************************)
EXTENDS Integers, Sequences, FiniteSets, TLC

(***************************************************************************)
(* Bounds of the model.                                                    *)
(***************************************************************************)
MaxUserId == 2
MaxDocs == 1
MaxApps == 2
MaxFeedback == 1
MaxReviews == 1
MaxNotifications == 2

(***************************************************************************)
(* Values.                                                                 *)
(***************************************************************************)
NoId == 0                     \* Python None in an integer column / session key
NoStr == "<None>"             \* Python None in a string column / session key
NoPath == <<>>                \* absent `next` argument

BootstrapUsername == "denis333rus"
BootstrapPassword == "qmzpal12"
BuiltinAdminName == "admin"

roles_choices ==
    {"junior_investigator", "investigator", "duty_investigator",
     "senior_investigator", "deputy_head", "admin"}

Sessions == {"s1", "s2"}

\* Raw form strings; str.strip() on them.
Strip(s) ==
    CASE s = " " -> ""
      [] s = " ivanov " -> "ivanov"
      [] s = " pw " -> "pw"
      [] OTHER -> s

\* werkzeug.security: a salted one-way digest.  Digest is injective in the
\* password for a given salt (an ideal hash); the salt is stored in the hash.
Digest(salt, password) == <<salt, password>>
Salts == {"salt"}

generate_password_hash(salt, password) ==
    [salt |-> salt, digest |-> Digest(salt, password)]

check_password_hash(pwhash, password) ==
    pwhash.digest = Digest(pwhash.salt, password)

\* AdminUser.set_password / AdminUser.check_password
set_password(row, salt, password) ==
    [row EXCEPT !.password_hash = generate_password_hash(salt, password)]

check_password(row, password) == check_password_hash(row.password_hash, password)

\* datetime.utcnow(): some non-null instant.
utcnow == "utcnow"

VARIABLES
    users,          \* AdminUser table: id -> row
    documents,      \* Document table: sequence, id = index
    applications,   \* JobApplication table: sequence, id = index
    feedbacks,      \* Feedback table: sequence, id = index
    reviews,        \* Review table: sequence, id = index
    notifications,  \* Notification table: sequence, id = index
    session,        \* per browser: the Flask session cookie
    initialAdmin    \* id of the row ensure_initial_admin created, NoId once deleted

vars == <<users, documents, applications, feedbacks, reviews, notifications,
          session, initialAdmin>>

(***************************************************************************)
(* Table helpers.                                                          *)
(***************************************************************************)
MaxOf(S) == CHOOSE x \in S : \A y \in S : y <= x
MinOf(S) == CHOOSE x \in S : \A y \in S : x <= y

\* rowid allocation of SQLite for `id INTEGER PRIMARY KEY`
NextId(tbl) == IF DOMAIN tbl = {} THEN 1 ELSE MaxOf(DOMAIN tbl) + 1

\* AdminUser.query.filter_by(username=...).first()
UserByName(tbl, username) ==
    IF \E i \in DOMAIN tbl : tbl[i].username = username
    THEN CHOOSE i \in DOMAIN tbl : tbl[i].username = username
    ELSE NoId

\* AdminUser.query.filter_by(role='admin').first(): table scan in rowid order
FirstAdmin(tbl) ==
    IF \E i \in DOMAIN tbl : tbl[i].role = "admin"
    THEN MinOf({i \in DOMAIN tbl : tbl[i].role = "admin"})
    ELSE NoId

\* mutant: the table without its UNIQUE constraint
NoUniqueConstraint(tbl) == TRUE

\* the UNIQUE constraint on admin_user.username
UsernameUnique(tbl) ==
    \A i, j \in DOMAIN tbl : tbl[i].username = tbl[j].username => i = j

InsertUser(tbl, id, row) == [i \in DOMAIN tbl \cup {id} |-> IF i = id THEN row ELSE tbl[i]]
DeleteUser(tbl, id) == [i \in DOMAIN tbl \ {id} |-> tbl[i]]

AdminUser(username, role) ==
    [username |-> username, password_hash |-> NoStr, role |-> role]

(***************************************************************************)
(* Responses, and the outcome of a request: the tables and sessions as the *)
(* handler leaves them, with the response it returns.                      *)
(***************************************************************************)
Render(template) == [code |-> 200, view |-> template, next |-> NoPath]
Redirect(endpoint) == [code |-> 302, view |-> endpoint, next |-> NoPath]
RedirectNext(endpoint, path) == [code |-> 302, view |-> endpoint, next |-> path]
Abort(code) == [code |-> code, view |-> "error", next |-> NoPath]

Path(route, arg) == <<route, arg>>

\* nothing committed, response r
Respond(r) ==
    [users |-> users, documents |-> documents, applications |-> applications,
     feedbacks |-> feedbacks, reviews |-> reviews, notifications |-> notifications,
     session |-> session, initialAdmin |-> initialAdmin, resp |-> r]

\* the database part of an outcome, and of the current state
TablesOf(o) ==
    <<o.users, o.documents, o.applications, o.feedbacks, o.reviews, o.notifications>>
db == <<users, documents, applications, feedbacks, reviews, notifications>>

\* a request is served: its outcome becomes the state
Serve(outcome) ==
    \E o \in {outcome} :
        /\ DOMAIN o.users \subseteq 1..MaxUserId
        /\ Len(o.documents) <= MaxDocs
        /\ Len(o.applications) <= MaxApps
        /\ Len(o.feedbacks) <= MaxFeedback
        /\ Len(o.reviews) <= MaxReviews
        /\ Len(o.notifications) <= MaxNotifications
        /\ users' = o.users
        /\ documents' = o.documents
        /\ applications' = o.applications
        /\ feedbacks' = o.feedbacks
        /\ reviews' = o.reviews
        /\ notifications' = o.notifications
        /\ session' = o.session
        /\ initialAdmin' = o.initialAdmin

(***************************************************************************)
(* Startup: create_app on an empty database.                               *)
(***************************************************************************)
ensure_initial_admin ==
    1 :> set_password(AdminUser(BootstrapUsername, "admin"), "salt", BootstrapPassword)

EmptySession == [admin_logged_in |-> FALSE, admin_username |-> NoStr, admin_user_id |-> NoId]

Init ==
    /\ users = ensure_initial_admin
    /\ documents = <<>>
    /\ applications = <<>>
    /\ feedbacks = <<>>
    /\ reviews = <<>>
    /\ notifications = <<>>
    /\ session = [s \in Sessions |-> EmptySession]
    /\ initialAdmin = 1

(***************************************************************************)
(* Authentication.                                                         *)
(***************************************************************************)
\* The self-healing rule shared by admin_login and require_admin_role.
SelfHeal(tbl, id) ==
    IF tbl[id].username = BuiltinAdminName /\ tbl[id].role # "admin"
    THEN [tbl EXCEPT ![id].role = "admin"]
    ELSE tbl

\* mutant: the redirect to the login page forgets the requested path
login_required_no_next(s, path, view) ==
    IF ~session[s].admin_logged_in
    THEN Respond(Redirect("admin_login"))
    ELSE view

\* login_required: the wrapper around every gated view
login_required(s, path, view) ==
    IF ~session[s].admin_logged_in
    THEN Respond(RedirectNext("admin_login", path))
    ELSE view

\* mutant: any password is accepted for an existing username
admin_login_no_password(s, rawUsername, password, nextArg) ==
    LET username == Strip(rawUsername)
        user == UserByName(users, username)
    IN  IF user # NoId
        THEN [Respond(IF nextArg # NoPath THEN RedirectNext("next_url", nextArg)
                      ELSE Redirect("admin_dashboard"))
                EXCEPT !.users = SelfHeal(users, user),
                       !.session[s] = [admin_logged_in |-> TRUE,
                                       admin_username |-> users[user].username,
                                       admin_user_id |-> user]]
        ELSE Respond(Render("admin/login.html"))

\* POST /admin/login
admin_login(s, rawUsername, password, nextArg) ==
    LET username == Strip(rawUsername)
        user == UserByName(users, username)
    IN  IF user # NoId /\ check_password(users[user], password)
        THEN [Respond(IF nextArg # NoPath THEN RedirectNext("next_url", nextArg)
                      ELSE Redirect("admin_dashboard"))
                EXCEPT !.users = SelfHeal(users, user),
                       !.session[s] = [admin_logged_in |-> TRUE,
                                       admin_username |-> users[user].username,
                                       admin_user_id |-> user]]
        ELSE Respond(Render("admin/login.html"))

\* GET /admin/logout
admin_logout(s) ==
    [Respond(Redirect("index")) EXCEPT !.session[s] = EmptySession]

\* require_admin_role: the session's AdminUser, whether the check passes, and
\* the AdminUser table as the check leaves it (self-healing is committed)
SessionUser(s) == UserByName(users, session[s].admin_username)

require_admin_role(s) ==
    IF SessionUser(s) = NoId THEN users ELSE SelfHeal(users, SessionUser(s))

\* mutant: the role of the session's AdminUser is not looked at
AdminAllowedAnyRole(s) == SessionUser(s) # NoId

AdminAllowed(s) ==
    /\ SessionUser(s) # NoId
    /\ require_admin_role(s)[SessionUser(s)].role = "admin"

\* abort(403) inside require_admin_role
Forbidden(s) == [Respond(Abort(403)) EXCEPT !.users = require_admin_role(s)]

(***************************************************************************)
(* User management (admin only).                                           *)
(***************************************************************************)
\* GET /admin/users
admin_users_list(s) ==
    login_required(s, Path("admin_users_list", NoId),
        IF ~AdminAllowed(s) THEN Forbidden(s)
        ELSE [Respond(Render("admin/users_list.html")) EXCEPT
                !.users = require_admin_role(s)])

\* GET, POST /admin/users/new
admin_users_new(s, method, rawUsername, password, role, salt) ==
    login_required(s, Path("admin_users_new", NoId),
        LET tbl == require_admin_role(s)
            username == Strip(rawUsername)
            u == set_password(AdminUser(username, role), salt, password)
        IN  IF ~AdminAllowed(s) THEN Forbidden(s)
            ELSE IF method = "GET" \/ username = "" \/ password = ""
                    \/ UserByName(tbl, username) # NoId
            THEN [Respond(Render("admin/user_form.html")) EXCEPT !.users = tbl]
            ELSE [Respond(Redirect("admin_users_list")) EXCEPT
                    !.users = InsertUser(tbl, NextId(tbl), u)])

\* GET, POST /admin/users/<user_id>/edit
admin_users_edit(s, user_id, method, rawUsername, role, password, salt) ==
    login_required(s, Path("admin_users_edit", user_id),
        LET tbl == require_admin_role(s)
            username == Strip(rawUsername)
            renamed == [tbl[user_id] EXCEPT
                          !.username = username,
                          !.role = IF role = NoStr THEN @ ELSE role]
            edited == IF password # "" THEN set_password(renamed, salt, password)
                      ELSE renamed
            committed == [tbl EXCEPT ![user_id] = edited]
        IN  IF ~AdminAllowed(s) THEN Forbidden(s)
            ELSE IF user_id \notin DOMAIN tbl
            THEN [Respond(Abort(404)) EXCEPT !.users = tbl]
            ELSE IF method = "GET" \/ username = ""
            THEN [Respond(Render("admin/user_form.html")) EXCEPT !.users = tbl]
            ELSE IF ~UsernameUnique(committed)
            THEN [Respond(Abort(500)) EXCEPT !.users = tbl]
            ELSE [Respond(Redirect("admin_users_list")) EXCEPT !.users = committed])

\* Document.query.filter_by(author_id=...).update({'author_id': ...})
ReassignAuthor(docs, from, to) ==
    [d \in DOMAIN docs |->
        IF docs[d].author_id = from THEN [docs[d] EXCEPT !.author_id = to] ELSE docs[d]]

\* Document.query.filter_by(approved_by_id=...).update({'approved_by_id': None})
ClearApprover(docs, id) ==
    [d \in DOMAIN docs |->
        IF docs[d].approved_by_id = id THEN [docs[d] EXCEPT !.approved_by_id = NoId]
        ELSE docs[d]]

\* POST /admin/users/<user_id>/delete
admin_users_delete(s, user_id) ==
    login_required(s, Path("admin_users_delete", user_id),
        LET tbl == require_admin_role(s)
            authored_documents == Cardinality({d \in DOMAIN documents :
                                                 documents[d].author_id = user_id})
            admin_user == FirstAdmin(tbl)
            moved == IF authored_documents > 0
                     THEN ReassignAuthor(documents, user_id, admin_user)
                     ELSE documents
        IN  IF ~AdminAllowed(s) THEN Forbidden(s)
            ELSE IF user_id \notin DOMAIN tbl
            THEN [Respond(Abort(404)) EXCEPT !.users = tbl]
            ELSE IF tbl[user_id].username = BootstrapUsername
                    \/ (authored_documents > 0 /\ admin_user = NoId)
            THEN [Respond(Redirect("admin_users_list")) EXCEPT !.users = tbl]
            ELSE [Respond(Redirect("admin_users_list")) EXCEPT
                    !.documents = ClearApprover(moved, user_id),
                    !.users = DeleteUser(tbl, user_id),
                    !.initialAdmin = IF user_id = initialAdmin THEN NoId ELSE @])

(***************************************************************************)
(* Internal notifications.                                                 *)
(***************************************************************************)
Notification(title, feedback_id) ==
    [title |-> title, feedback_id |-> feedback_id, is_read |-> FALSE]

\* send_document_notification_to_all_roles: the message reads
\* document_item.author.full_name; with no AdminUser row of that id the
\* relationship is None, the AttributeError is swallowed and no row is written.
send_document_notification_to_all_roles(author_id) ==
    IF author_id \in DOMAIN users
    THEN Append(notifications, Notification("document", NoId))
    ELSE notifications

\* send_review_notification_to_all_roles
send_review_notification_to_all_roles ==
    Append(notifications, Notification("review", NoId))

\* mutant: the row does not reference the Feedback it announces
send_notification_unlinked(feedback_id) ==
    Append(notifications, Notification("feedback", NoId))

\* send_notification_to_all_roles
send_notification_to_all_roles(feedback_id) ==
    Append(notifications, Notification("feedback", feedback_id))

\* POST /admin/notifications/<notif_id>/read
mark_notification_read(s, notif_id) ==
    login_required(s, Path("mark_notification_read", notif_id),
        IF notif_id \notin DOMAIN notifications THEN Respond(Abort(404))
        ELSE [Respond(Redirect("admin_notifications")) EXCEPT
                !.notifications[notif_id].is_read = TRUE])

\* mutant: only the oldest Notification is marked
mark_first_notification_read(s) ==
    login_required(s, Path("mark_all_notifications_read", NoId),
        [Respond(Redirect("admin_notifications")) EXCEPT
            !.notifications = [n \in DOMAIN notifications |->
                                 [notifications[n] EXCEPT
                                     !.is_read = IF n = 1 THEN TRUE ELSE @]]])

\* POST /admin/notifications/mark-all-read
mark_all_notifications_read(s) ==
    login_required(s, Path("mark_all_notifications_read", NoId),
        [Respond(Redirect("admin_notifications")) EXCEPT
            !.notifications = [n \in DOMAIN notifications |->
                                 [notifications[n] EXCEPT !.is_read = TRUE]]])

(***************************************************************************)
(* Document workflow.                                                      *)
(***************************************************************************)
Document(author_id) ==
    [author_id |-> author_id, status |-> "pending",
     approved_by_id |-> NoId, approved_at |-> NoStr]

\* GET, POST /documents
documents_view(s, method, title, content, document_type) ==
    login_required(s, Path("documents", NoId),
        LET current_user_id == session[s].admin_user_id
        IN  IF method = "GET"
               \/ Strip(title) = "" \/ Strip(content) = "" \/ Strip(document_type) = ""
            THEN Respond(Render("documents.html"))
            ELSE IF current_user_id = NoId
            THEN Respond(Redirect("admin_login"))
            ELSE [Respond(Redirect("documents")) EXCEPT
                    !.documents = Append(documents, Document(current_user_id)),
                    !.notifications =
                        send_document_notification_to_all_roles(current_user_id)])

\* mutant: an approval that records no timestamp
admin_document_approve_unstamped(s, document_id) ==
    login_required(s, Path("admin_document_approve", document_id),
        IF document_id \notin DOMAIN documents THEN Respond(Abort(404))
        ELSE [Respond(Redirect("admin_document_detail")) EXCEPT
                !.documents[document_id] =
                    [@ EXCEPT !.status = "approved",
                              !.approved_by_id = session[s].admin_user_id]])

\* POST /admin/documents/<document_id>/approve
admin_document_approve(s, document_id) ==
    login_required(s, Path("admin_document_approve", document_id),
        IF document_id \notin DOMAIN documents THEN Respond(Abort(404))
        ELSE [Respond(Redirect("admin_document_detail")) EXCEPT
                !.documents[document_id] =
                    [@ EXCEPT !.status = "approved",
                              !.approved_by_id = session[s].admin_user_id,
                              !.approved_at = utcnow]])

\* mutant: a rejection that sends the Document back for revision
admin_document_return(s, document_id) ==
    login_required(s, Path("admin_document_reject", document_id),
        IF document_id \notin DOMAIN documents THEN Respond(Abort(404))
        ELSE [Respond(Redirect("admin_document_detail")) EXCEPT
                !.documents[document_id] =
                    [@ EXCEPT !.status = "pending",
                              !.approved_by_id = session[s].admin_user_id]])

\* POST /admin/documents/<document_id>/reject
admin_document_reject(s, document_id) ==
    login_required(s, Path("admin_document_reject", document_id),
        IF document_id \notin DOMAIN documents THEN Respond(Abort(404))
        ELSE [Respond(Redirect("admin_document_detail")) EXCEPT
                !.documents[document_id] =
                    [@ EXCEPT !.status = "rejected",
                              !.approved_by_id = session[s].admin_user_id]])

(***************************************************************************)
(* Job applications.                                                       *)
(***************************************************************************)
JobApplication(desired_username, desired_password) ==
    [desired_username |-> desired_username, desired_password |-> desired_password,
     status |-> "pending"]

\* mutant: the submission does not look for an account with that username
job_application_unchecked(full_name, rawUsername, rawPassword, question1, question2, question3) ==
    LET desired_username == Strip(rawUsername)
        desired_password == Strip(rawPassword)
    IN  IF \/ Strip(full_name) = "" \/ desired_username = "" \/ desired_password = ""
           \/ Strip(question1) = "" \/ Strip(question2) = "" \/ Strip(question3) = ""
        THEN Respond(Render("job_application.html"))
        ELSE [Respond(Redirect("track_application")) EXCEPT
                !.applications = Append(applications,
                                        JobApplication(desired_username, desired_password)),
                !.notifications = Append(notifications,
                                         Notification("job_application", NoId))]

\* POST /job-application (public)
job_application(full_name, rawUsername, rawPassword, question1, question2, question3) ==
    LET desired_username == Strip(rawUsername)
        desired_password == Strip(rawPassword)
    IN  IF \/ Strip(full_name) = "" \/ desired_username = "" \/ desired_password = ""
           \/ Strip(question1) = "" \/ Strip(question2) = "" \/ Strip(question3) = ""
           \/ UserByName(users, desired_username) # NoId
        THEN Respond(Render("job_application.html"))
        ELSE [Respond(Redirect("track_application")) EXCEPT
                !.applications = Append(applications,
                                        JobApplication(desired_username, desired_password)),
                !.notifications = Append(notifications,
                                         Notification("job_application", NoId))]

\* mutant: the account's password is set from the wrong column
ApplicantAccountByName(application, salt) ==
    set_password(AdminUser(application.desired_username, "investigator"),
                 salt, application.desired_username)

\* the account an approval creates
ApplicantAccount(application, salt) ==
    set_password(AdminUser(application.desired_username, "investigator"),
                 salt, application.desired_password)

\* GET, POST /admin/job-applications/<app_id>
admin_job_application_detail(s, app_id, method, action, salt) ==
    login_required(s, Path("admin_job_application_detail", app_id),
        LET application == applications[app_id]
            user == ApplicantAccount(application, salt)
            added == InsertUser(users, NextId(users), user)
        IN  IF app_id \notin DOMAIN applications THEN Respond(Abort(404))
            ELSE IF method = "GET"
            THEN Respond(Render("admin/job_application_detail.html"))
            ELSE IF action = "approve"
            THEN IF ~UsernameUnique(added) THEN Respond(Abort(500))
                 ELSE [Respond(Redirect("admin_job_application_detail")) EXCEPT
                         !.users = added,
                         !.applications[app_id].status = "approved"]
            ELSE IF action = "reject"
            THEN [Respond(Redirect("admin_job_application_detail")) EXCEPT
                    !.applications[app_id].status = "rejected"]
            ELSE Respond(Redirect("admin_job_application_detail")))

(***************************************************************************)
(* Feedback.                                                               *)
(***************************************************************************)
Feedback == [status |-> "new"]

\* POST /feedback (public)
feedback(full_name, message) ==
    IF Strip(full_name) = "" \/ Strip(message) = ""
    THEN Respond(Render("feedback.html"))
    ELSE [Respond(Redirect("feedback")) EXCEPT
            !.feedbacks = Append(feedbacks, Feedback),
            !.notifications = send_notification_to_all_roles(Len(feedbacks) + 1)]

\* GET, POST /admin/feedback/<fb_id>
admin_feedback_detail(s, fb_id, method, status) ==
    login_required(s, Path("admin_feedback_detail", fb_id),
        IF fb_id \notin DOMAIN feedbacks THEN Respond(Abort(404))
        ELSE IF method = "GET" THEN Respond(Render("admin/feedback_detail.html"))
        ELSE [Respond(Redirect("admin_feedback_detail")) EXCEPT
                !.feedbacks[fb_id].status = IF status = NoStr THEN @ ELSE status])

(***************************************************************************)
(* Reviews.                                                                *)
(***************************************************************************)
Review(rating) == [rating |-> rating, status |-> "pending"]

\* request.form.get('rating', type=int) of a missing or non-numeric value
NoRating == 0 - 1

\* mutant: the range of the rating is not checked
reviews_view_unranged(author_name, rating, title, content) ==
    IF \/ Strip(author_name) = "" \/ rating = NoRating \/ rating = 0
       \/ Strip(title) = "" \/ Strip(content) = ""
    THEN Respond(Render("reviews.html"))
    ELSE [Respond(Redirect("reviews")) EXCEPT
            !.reviews = Append(reviews, Review(rating)),
            !.notifications = send_review_notification_to_all_roles]

\* POST /reviews (public)
reviews_view(author_name, rating, title, content) ==
    IF \/ Strip(author_name) = "" \/ rating = NoRating \/ rating = 0
       \/ Strip(title) = "" \/ Strip(content) = ""
       \/ rating < 1 \/ rating > 5
    THEN Respond(Render("reviews.html"))
    ELSE [Respond(Redirect("reviews")) EXCEPT
            !.reviews = Append(reviews, Review(rating)),
            !.notifications = send_review_notification_to_all_roles]

\* mutant: a listing behind a moderation gate
approved_reviews == {r \in DOMAIN reviews : reviews[r].status = "approved"}

\* Review.query.order_by(Review.created_at.desc()).all(): the public listing
all_reviews == {r \in DOMAIN reviews : TRUE}

\* POST /admin/reviews/<review_id>/approve
admin_review_approve(s, review_id) ==
    login_required(s, Path("admin_review_approve", review_id),
        IF review_id \notin DOMAIN reviews THEN Respond(Abort(404))
        ELSE [Respond(Redirect("admin_review_detail")) EXCEPT
                !.reviews[review_id].status = "approved"])

\* POST /admin/reviews/<review_id>/reject
admin_review_reject(s, review_id) ==
    login_required(s, Path("admin_review_reject", review_id),
        IF review_id \notin DOMAIN reviews THEN Respond(Abort(404))
        ELSE [Respond(Redirect("admin_review_detail")) EXCEPT
                !.reviews[review_id].status = "rejected"])

(***************************************************************************)
(* External notification channels.  After the internal Notification is     *)
(* committed, send_*_notification_to_all_roles calls, in this order, the   *)
(* email, Discord and Telegram senders that the environment enables.  A    *)
(* channel that raises inside its own try block returns normally; an       *)
(* exception that left a sender would end the enclosing try block and skip *)
(* the senders after it.                                                   *)
(***************************************************************************)
Channels == {"email", "discord", "telegram"}

\* every send_*_email/discord/telegram_notification wraps its whole body in
\* try ... except Exception
ChannelSwallows(c) == c \in Channels

\* one `if <configured>: send_..._notification(...)` statement
ChannelStep(acc, c, enabled, raising) ==
    IF acc.escaped \/ c \notin enabled THEN acc
    ELSE [attempted |-> acc.attempted \cup {c},
          escaped |-> c \in raising /\ ~ChannelSwallows(c)]

\* the three statements in source order
external_notifications(enabled, raising) ==
    ChannelStep(
        ChannelStep(
            ChannelStep([attempted |-> {}, escaped |-> FALSE],
                        "email", enabled, raising),
            "discord", enabled, raising),
        "telegram", enabled, raising)

\* the senders a request calls: none unless the handler reached the
\* notification function and its internal Notification was committed
feedback_channels(full_name, message, enabled, raising) ==
    IF feedback(full_name, message).notifications # notifications
    THEN external_notifications(enabled, raising).attempted
    ELSE {}

reviews_channels(author_name, rating, title, content, enabled, raising) ==
    IF reviews_view(author_name, rating, title, content).notifications # notifications
    THEN external_notifications(enabled, raising).attempted
    ELSE {}

documents_channels(s, method, title, content, document_type, enabled, raising) ==
    IF documents_view(s, method, title, content, document_type).notifications
           # notifications
    THEN external_notifications(enabled, raising).attempted
    ELSE {}

(***************************************************************************)
(* Gated handlers that change none of the modelled tables: the list and    *)
(* detail pages and the handlers over News and SiteInfo.                   *)
(***************************************************************************)
OtherGatedRoutes ==
    {"admin_dashboard", "admin_site_settings", "admin_news_list", "admin_news_new",
     "admin_news_edit", "admin_news_delete", "admin_notifications",
     "admin_job_applications", "admin_feedback_list", "admin_reviews",
     "admin_review_detail", "admin_documents", "admin_document_detail"}

gated_view(s, route) ==
    login_required(s, Path(route, NoId), Respond(Render(route)))

(***************************************************************************)
(* Requests: form values are drawn from small sets.  " " is a blank field  *)
(* and " ivanov ", " pw " are padded ones, for the handlers that strip.    *)
(***************************************************************************)
FormUsernames == {" ", BootstrapUsername, BuiltinAdminName, " ivanov "}
FormRoles == {NoStr, "admin", "investigator"}
FormStatuses == {NoStr, "new", "in_progress", "done", "closed"}
FormActions == {NoStr, "approve", "reject"}
FormRatings == {NoRating, 0, 3, 6}
\* (title, content, document_type) and the like: complete, or one field blank
FormTriples == {<<"text", "text", "text">>, <<" ", "text", "text">>,
                <<"text", "", "text">>, <<"text", "text", " ">>}
NextArgs == {NoPath, Path("documents", NoId)}

UserIds == 1..MaxUserId
DocIds == 1..MaxDocs
AppIds == 1..MaxApps
FeedbackIds == 1..MaxFeedback
ReviewIds == 1..MaxReviews
NotificationIds == 1..MaxNotifications

\* /admin/login, /admin/logout
AuthRequests(ss, names, nexts) ==
    \/ \E s \in ss, u \in names, p \in {BootstrapPassword, "pw"}, n \in nexts :
          Serve(admin_login(s, u, p, n))
    \/ \E s \in ss : Serve(admin_logout(s))

\* /admin/users...
UserRequests(ss, names, roles, passwords, newPasswords) ==
    \/ \E s \in ss : Serve(admin_users_list(s))
    \/ \E s \in ss : Serve(admin_users_new(s, "GET", "", "", "investigator", "salt"))
    \/ \E s \in ss, u \in names, p \in newPasswords, r \in roles \ {NoStr},
          salt \in Salts :
          Serve(admin_users_new(s, "POST", u, p, r, salt))
    \/ \E s \in ss, id \in UserIds :
          Serve(admin_users_edit(s, id, "GET", "", NoStr, "", "salt"))
    \/ \E s \in ss, id \in UserIds, u \in names, r \in roles, p \in passwords,
          salt \in Salts :
          Serve(admin_users_edit(s, id, "POST", u, r, p, salt))
    \/ \E s \in ss, id \in UserIds : Serve(admin_users_delete(s, id))

\* /documents, /admin/documents/<id>/approve and /reject
DocumentRequests(ss) ==
    \/ \E s \in ss : Serve(documents_view(s, "GET", "", "", ""))
    \/ \E s \in ss, f \in FormTriples :
          Serve(documents_view(s, "POST", f[1], f[2], f[3]))
    \/ \E s \in ss, id \in DocIds : Serve(admin_document_approve(s, id))
    \/ \E s \in ss, id \in DocIds : Serve(admin_document_reject(s, id))

\* /job-application, /admin/job-applications/<id>
ApplicationRequests(ss, names) ==
    \/ \E u \in names, p \in {"", " pw "} :
          Serve(job_application("text", u, p, "text", "text", "text"))
    \/ \E f \in {" ", "text"}, q \in FormTriples :
          Serve(job_application(f, " ivanov ", " pw ", q[1], q[2], q[3]))
    \/ \E s \in ss, id \in AppIds :
          Serve(admin_job_application_detail(s, id, "GET", NoStr, "salt"))
    \/ \E s \in ss, id \in AppIds, a \in FormActions, salt \in Salts :
          Serve(admin_job_application_detail(s, id, "POST", a, salt))

\* /feedback, /admin/feedback/<id>
FeedbackRequests(ss, statuses) ==
    \/ \E f, m \in {"", " ", "text"} : Serve(feedback(f, m))
    \/ \E s \in ss, id \in FeedbackIds :
          Serve(admin_feedback_detail(s, id, "GET", NoStr))
    \/ \E s \in ss, id \in FeedbackIds, st \in statuses :
          Serve(admin_feedback_detail(s, id, "POST", st))

\* /reviews, /admin/reviews/<id>/approve and /reject
ReviewRequests(ss) ==
    \/ \E f \in FormTriples, r \in FormRatings : Serve(reviews_view(f[1], r, f[2], f[3]))
    \/ \E s \in ss, id \in ReviewIds : Serve(admin_review_approve(s, id))
    \/ \E s \in ss, id \in ReviewIds : Serve(admin_review_reject(s, id))

\* /admin/notifications/...
NotificationRequests(ss, ids) ==
    \/ \E s \in ss, id \in ids : Serve(mark_notification_read(s, id))
    \/ \E s \in ss : Serve(mark_all_notifications_read(s))

OtherRequests(ss) == \E s \in ss, r \in OtherGatedRoutes : Serve(gated_view(s, r))

(***************************************************************************)
(* Specifications.  The document handlers, the job-application handlers    *)
(* and the inbox handlers (feedback, reviews, notifications) write         *)
(* disjoint tables; what they share is AdminUser and the session.  Each    *)
(* group is explored together with authentication and user management.     *)
(***************************************************************************)
TwoNames == {BootstrapUsername, " ivanov "}
OneBrowser == {"s1"}

\* accounts: login and user management, from two browsers
NextUsers ==
    \/ AuthRequests(Sessions, FormUsernames \ {" "}, NextArgs)
    \/ UserRequests(Sessions, FormUsernames, FormRoles, {"", "pw"}, {"", "pw"})

SpecUsers == Init /\ [][NextUsers]_vars

\* job applications, with login and user management
NextApplications ==
    \/ AuthRequests(OneBrowser, TwoNames, {NoPath})
    \/ UserRequests(OneBrowser, TwoNames \cup {" "}, FormRoles, {""}, {"pw"})
    \/ ApplicationRequests(OneBrowser, TwoNames \cup {" "})

SpecApplications == Init /\ [][NextApplications]_vars

\* the document workflow, with login and user management
NextDocuments ==
    \/ AuthRequests(OneBrowser, TwoNames, {NoPath})
    \/ UserRequests(OneBrowser, TwoNames \cup {" "}, FormRoles, {""}, {"pw"})
    \/ DocumentRequests(OneBrowser)

SpecDocuments == Init /\ [][NextDocuments]_vars

\* every route: the tables fill up to MaxNotifications rows in all
NextGate ==
    \/ AuthRequests(OneBrowser, TwoNames, {NoPath})
    \/ UserRequests(OneBrowser, {" "}, {"investigator"}, {""}, {"pw"})
    \/ DocumentRequests(OneBrowser)
    \/ ApplicationRequests(OneBrowser, {" ivanov "})
    \/ FeedbackRequests(OneBrowser, {"done"})
    \/ ReviewRequests(OneBrowser)
    \/ NotificationRequests(OneBrowser, NotificationIds)
    \/ OtherRequests(OneBrowser)

SpecGate == Init /\ [][NextGate]_vars

(***************************************************************************)
(* Properties of the document workflow (SpecDocuments).                    *)
(***************************************************************************)
DocStatuses == {"pending", "approved", "rejected"}
IsAdminSession(s) ==
    /\ session[s].admin_logged_in
    /\ \E u \in DOMAIN users :
          users[u].username = session[s].admin_username /\ users[u].role = "admin"

\* C1, as claimed: every Document has a status in {pending, approved,
\* rejected}, and every approved Document has a non-null approved_by_id and
\* a non-null approved_at.
C1_AsClaimed ==
    \A d \in DOMAIN documents :
        /\ documents[d].status \in DocStatuses
        /\ documents[d].status = "approved" =>
              documents[d].approved_by_id # NoId /\ documents[d].approved_at # NoStr

\* C1, amended: every Document has a status in {pending, approved, rejected}
\* and every approved Document has a non-null approved_at; its approved_by_id
\* is non-null when it is approved, and an approved Document loses its
\* approver only in a step that deletes the AdminUser with that id.
C1_StatusAndStamp ==
    \A d \in DOMAIN documents :
        /\ documents[d].status \in DocStatuses
        /\ documents[d].status = "approved" => documents[d].approved_at # NoStr

C1_ApproverStep ==
    \A d \in DOMAIN documents' :
        (documents'[d].status = "approved" /\ documents'[d].approved_by_id = NoId) =>
            /\ d \in DOMAIN documents
            /\ documents[d].status = "approved"
            /\ \/ documents[d].approved_by_id = NoId
               \/ /\ documents[d].approved_by_id \in DOMAIN users
                  /\ documents[d].approved_by_id \notin DOMAIN users'

\* C1 (amended): the state part holds in every state and the approver part in
\* every step.
C1_Amended == [](C1_StatusAndStamp) /\ [][C1_ApproverStep]_vars

\* C1 witness: an approved Document whose approver has been deleted
C1_Witness ==
    \E d \in DOMAIN documents :
        /\ documents[d].status = "approved"
        /\ documents[d].approved_by_id = NoId
        /\ documents[d].approved_at # NoStr

\* C2, as claimed: once a Document is approved or rejected, no later step
\* changes its status.
C2_Terminal ==
    [][\A d \in DOMAIN documents :
          documents[d].status \in {"approved", "rejected"} =>
              documents'[d].status = documents[d].status]_vars

\* C3, as claimed: an approve or reject request from a logged-in session that
\* does not belong to an admin-role AdminUser leaves the Document's status,
\* approver and approval timestamp unchanged.
C3_AdminOnly ==
    \A s \in Sessions, d \in DOMAIN documents :
        (/\ session[s].admin_logged_in
         /\ SessionUser(s) # NoId
         /\ users[SessionUser(s)].role # "admin") =>
            /\ admin_document_approve(s, d).documents[d] = documents[d]
            /\ admin_document_reject(s, d).documents[d] = documents[d]

\* C6, as claimed: when an admin deletes a non-bootstrap AdminUser U who
\* authored Documents, U no longer exists afterwards and every Document U
\* authored has as author an existing admin-role AdminUser other than U.
C6_Reassigned ==
    \A s \in Sessions, u \in DOMAIN users :
        LET o == admin_users_delete(s, u)
            authored == {d \in DOMAIN documents : documents[d].author_id = u}
        IN  (/\ IsAdminSession(s)
             /\ u # initialAdmin
             /\ users[u].username # BootstrapUsername
             /\ authored # {}) =>
                /\ u \notin DOMAIN o.users
                /\ \A d \in authored :
                      /\ o.documents[d].author_id # u
                      /\ o.documents[d].author_id \in DOMAIN o.users
                      /\ o.users[o.documents[d].author_id].role = "admin"

(***************************************************************************)
(* Properties of job-application approval (SpecApplications).              *)
(***************************************************************************)
PasswordCandidates == {"", " ", "pw", " pw ", BootstrapPassword, "ivanov", "text"}

ApproveOutcome(s, a) == admin_job_application_detail(s, a, "POST", "approve", "salt")

\* C4: no two AdminUser rows share a username, and an approve request for an
\* application whose desired_username is already the username of an AdminUser
\* adds no AdminUser and leaves the application's status as it was.
C4_NoCollision ==
    /\ \A i, j \in DOMAIN users : i # j => users[i].username # users[j].username
    /\ \A s \in Sessions, a \in DOMAIN applications :
          (\E u \in DOMAIN users : users[u].username = applications[a].desired_username)
             => /\ ApproveOutcome(s, a).users = users
                /\ ApproveOutcome(s, a).applications = applications

\* C4 witness: two applications for one username, the first approved into an
\* account, the second still pending in front of a logged-in session
C4_Witness ==
    \E a, b \in DOMAIN applications, u \in DOMAIN users, s \in Sessions :
        /\ a # b
        /\ applications[a].desired_username = applications[b].desired_username
        /\ applications[a].status = "approved"
        /\ applications[b].status = "pending"
        /\ users[u].username = applications[b].desired_username
        /\ session[s].admin_logged_in

\* C5: approving, from a logged-in session, a pending application whose
\* desired_username is not in use adds exactly one AdminUser, with that
\* username, role investigator and a credential that verifies against the
\* application's desired_password and against no other string, and sets the
\* application's status to approved.
C5_Provisioned ==
    \A s \in Sessions, a \in DOMAIN applications :
        (/\ session[s].admin_logged_in
         /\ applications[a].status = "pending"
         /\ \A u \in DOMAIN users : users[u].username # applications[a].desired_username)
           => LET o == ApproveOutcome(s, a)
                  added == DOMAIN o.users \ DOMAIN users
              IN  /\ Cardinality(added) = 1
                  /\ \A u \in DOMAIN users : u \in DOMAIN o.users /\ o.users[u] = users[u]
                  /\ \A n \in added :
                        /\ o.users[n].username = applications[a].desired_username
                        /\ o.users[n].role = "investigator"
                        /\ check_password(o.users[n], applications[a].desired_password)
                        /\ \A p \in PasswordCandidates \ {applications[a].desired_password} :
                              ~check_password(o.users[n], p)
                  /\ o.applications[a].status = "approved"

\* C5 witness: an approved application next to the investigator account made
\* from it, whose credential verifies against the application's password
C5_Witness ==
    \E a \in DOMAIN applications, u \in DOMAIN users :
        /\ applications[a].status = "approved"
        /\ users[u].username = applications[a].desired_username
        /\ users[u].role = "investigator"
        /\ check_password(users[u], applications[a].desired_password)

(***************************************************************************)
(* Properties of accounts and sessions (SpecUsers).                        *)
(***************************************************************************)
\* C7, as claimed: the account ensure_initial_admin created still exists in
\* every reachable state.
C7_BootstrapKept == initialAdmin \in DOMAIN users

\* the user-management requests of session s, over every form value
UserManagementOutcomes(s) ==
    {admin_users_list(s)}
    \cup {admin_users_new(s, m, u, p, r, "salt") :
            m \in {"GET", "POST"}, u \in FormUsernames, p \in {"", "pw"},
            r \in FormRoles \ {NoStr}}
    \cup {admin_users_edit(s, id, m, u, r, p, "salt") :
            id \in UserIds, m \in {"GET", "POST"}, u \in FormUsernames,
            r \in FormRoles, p \in {"", "pw"}}
    \cup {admin_users_delete(s, id) : id \in UserIds}

Refused(o) ==
    /\ o.resp = Abort(403)
    /\ o.users = users
    /\ o.documents = documents

\* C8, as claimed: for a logged-in session whose username does not resolve to
\* an AdminUser with stored role admin, every user-management request is
\* answered forbidden and leaves the AdminUser and Document rows unchanged.
C8_AsClaimed ==
    \A s \in Sessions :
        (session[s].admin_logged_in /\ ~IsAdminSession(s)) =>
            \A o \in UserManagementOutcomes(s) : Refused(o)

\* C8, amended: user-management requests take effect only when the session's
\* username resolves to an AdminUser whose stored role is admin or whose
\* username is the built-in name "admin" (that account is first promoted to
\* admin, and the promotion is committed); for every other logged-in session
\* the response is forbidden and the AdminUser and Document rows are unchanged.
IsBuiltinSession(s) ==
    /\ session[s].admin_logged_in
    /\ session[s].admin_username = BuiltinAdminName
    /\ \E u \in DOMAIN users : users[u].username = BuiltinAdminName

C8_Amended ==
    \A s \in Sessions :
        session[s].admin_logged_in =>
            IF IsAdminSession(s) \/ IsBuiltinSession(s)
            THEN /\ \A o \in UserManagementOutcomes(s) : o.resp.code # 403
                 /\ \A u \in DOMAIN users :
                       users[u].username = session[s].admin_username =>
                           admin_users_list(s).users =
                               [users EXCEPT ![u].role = "admin"]
            ELSE \A o \in UserManagementOutcomes(s) : Refused(o)

\* C8 witness: a logged-in session refused while another account exists
\* next to its own non-admin account
C8_Witness ==
    \E s \in Sessions, u, v \in DOMAIN users :
        /\ u # v
        /\ session[s].admin_logged_in
        /\ users[u].username = session[s].admin_username
        /\ users[u].role = "investigator"
        /\ users[u].username # BuiltinAdminName
        /\ \A o \in UserManagementOutcomes(s) : Refused(o)

\* C10: a session becomes logged in only in a step that is a login request
\* naming an existing AdminUser with a password that verifies against that
\* user's stored credential; a login request with an unknown username or a
\* wrong password leaves the session and the database as they were and
\* redisplays the login form.
Verifies(row, password) ==
    \E salt \in Salts : row.password_hash = generate_password_hash(salt, password)

ValidCredentials(username, password) ==
    \E u \in DOMAIN users :
        users[u].username = username /\ Verifies(users[u], password)

LoginUsernames == FormUsernames \cup {"ivanov", "", "text"}

C10_FailedLogin ==
    \A s \in Sessions, u \in LoginUsernames, p \in PasswordCandidates, n \in NextArgs :
        ~ValidCredentials(Strip(u), p) =>
            LET o == admin_login(s, u, p, n)
            IN  /\ o.session = session
                /\ TablesOf(o) = db
                /\ o.resp = Render("admin/login.html")

C10_LoginStep ==
    \A s \in Sessions :
        (~session[s].admin_logged_in /\ session'[s].admin_logged_in) =>
            \E u \in LoginUsernames, p \in PasswordCandidates, n \in NextArgs :
                /\ ValidCredentials(Strip(u), p)
                /\ Serve(admin_login(s, u, p, n))
                /\ session'[s].admin_username = Strip(u)

\* C10: the failed-login part holds in every state and the login-step part in
\* every step.
C10_LoginOnly == [](C10_FailedLogin) /\ [][C10_LoginStep]_vars

\* C10 witness: a session logged in as an existing account, while another
\* account has a different password
C10_Witness ==
    \E s \in Sessions, u, v \in DOMAIN users :
        /\ session[s].admin_logged_in
        /\ session[s].admin_user_id = u
        /\ users[u].username = session[s].admin_username
        /\ users[u].password_hash # users[v].password_hash

(***************************************************************************)
(* The session gate (SpecGate).                                            *)
(***************************************************************************)
\* every gated request of session s with the path it was sent to
GatedRequests(s) ==
    {<<Path("admin_users_list", NoId), admin_users_list(s)>>}
    \cup {<<Path("admin_users_new", NoId), admin_users_new(s, m, u, "pw", "admin", "salt")>> :
            m \in {"GET", "POST"}, u \in FormUsernames}
    \cup {<<Path("admin_users_edit", id), admin_users_edit(s, id, m, u, r, "pw", "salt")>> :
            id \in UserIds, m \in {"GET", "POST"}, u \in FormUsernames, r \in FormRoles}
    \cup {<<Path("admin_users_delete", id), admin_users_delete(s, id)>> : id \in UserIds}
    \cup {<<Path("mark_notification_read", id), mark_notification_read(s, id)>> :
            id \in NotificationIds}
    \cup {<<Path("mark_all_notifications_read", NoId), mark_all_notifications_read(s)>>}
    \cup {<<Path("admin_job_application_detail", id),
            admin_job_application_detail(s, id, m, a, "salt")>> :
            id \in AppIds, m \in {"GET", "POST"}, a \in FormActions}
    \cup {<<Path("admin_feedback_detail", id), admin_feedback_detail(s, id, m, st)>> :
            id \in FeedbackIds, m \in {"GET", "POST"}, st \in FormStatuses}
    \cup {<<Path("admin_review_approve", id), admin_review_approve(s, id)>> :
            id \in ReviewIds}
    \cup {<<Path("admin_review_reject", id), admin_review_reject(s, id)>> :
            id \in ReviewIds}
    \cup {<<Path("documents", NoId), documents_view(s, m, f[1], f[2], f[3])>> :
            m \in {"GET", "POST"}, f \in FormTriples}
    \cup {<<Path("admin_document_approve", id), admin_document_approve(s, id)>> :
            id \in DocIds}
    \cup {<<Path("admin_document_reject", id), admin_document_reject(s, id)>> :
            id \in DocIds}
    \cup {<<Path(r, NoId), gated_view(s, r)>> : r \in OtherGatedRoutes}

\* C9: a gated request from a session that is not logged in (never logged in,
\* or logged out: a logout leaves the session not logged in) is redirected to
\* the login page with the requested path as next, and changes no table.
C9_Gate ==
    \A s \in Sessions :
        /\ ~admin_logout(s).session[s].admin_logged_in
        /\ ~session[s].admin_logged_in =>
              \A r \in GatedRequests(s) :
                  /\ r[2].resp = [code |-> 302, view |-> "admin_login", next |-> r[1]]
                  /\ TablesOf(r[2]) = db
                  /\ r[2].session = session

\* C9 witness: nobody is logged in any more, and the tables hold rows the
\* gated handlers would change: an approved document, a pending application,
\* an unread notification
C9_Witness ==
    /\ \A s \in Sessions : ~session[s].admin_logged_in
    /\ \E d \in DOMAIN documents : documents[d].status = "approved"
    /\ \E a \in DOMAIN applications : applications[a].status = "pending"
    /\ \E n \in DOMAIN notifications : ~notifications[n].is_read

(***************************************************************************)
(* Self-healing at login (SpecUsers).                                      *)
(***************************************************************************)
\* C11, as claimed: when the account holding the bootstrap username (the one
\* created at startup) logs in successfully while its stored role is not
\* admin, its role is admin once the login completes.
C11_BootstrapHealed ==
    \A s \in Sessions, p \in PasswordCandidates, n \in NextArgs :
        LET u == UserByName(users, BootstrapUsername)
        IN  (/\ u # NoId
             /\ u = initialAdmin
             /\ users[u].role # "admin"
             /\ check_password(users[u], p)) =>
                LET o == admin_login(s, BootstrapUsername, p, n)
                IN  /\ o.session[s].admin_logged_in
                    /\ o.users[u].role = "admin"

(***************************************************************************)
(* Internal notifications of the public forms (SpecGate).                  *)
(***************************************************************************)
FormTexts == {"", " ", "text"}

\* o appends exactly one row to the table tbl
AddsOne(tbl, after) ==
    /\ Len(after) = Len(tbl) + 1
    /\ SubSeq(after, 1, Len(tbl)) = tbl

NotificationsOf(f) == {n \in DOMAIN notifications : notifications[n].feedback_id = f}

\* C12: every Feedback row has exactly one Notification referencing it; a
\* feedback submission with non-empty full_name and message adds exactly one
\* Feedback row and exactly one Notification row whose feedback_id is the new
\* row's id, and a submission failing validation adds neither.
C12_FeedbackNotified ==
    /\ \A f \in DOMAIN feedbacks : Cardinality(NotificationsOf(f)) = 1
    /\ \A full_name, message \in FormTexts :
          LET o == feedback(full_name, message)
          IN  IF Strip(full_name) = "" \/ Strip(message) = ""
              THEN TablesOf(o) = db
              ELSE /\ AddsOne(feedbacks, o.feedbacks)
                   /\ AddsOne(notifications, o.notifications)
                   /\ o.notifications[Len(o.notifications)].feedback_id = Len(o.feedbacks)
                   /\ o.notifications[Len(o.notifications)].feedback_id
                         \notin DOMAIN feedbacks

\* C12 witness: a Feedback row announced by the second of two Notification rows
C12_Witness ==
    \E f \in DOMAIN feedbacks :
        /\ Len(notifications) = 2
        /\ NotificationsOf(f) = {2}

\* C13, as claimed: every Review creation and every Document creation by a
\* logged-in session (its AdminUser deleted or renamed since, or not) writes
\* exactly one Notification row.
C13_CreationNotified ==
    /\ \A f \in FormTriples, r \in FormRatings :
          LET o == reviews_view(f[1], r, f[2], f[3])
          IN  AddsOne(reviews, o.reviews) => AddsOne(notifications, o.notifications)
    /\ \A s \in Sessions, f \in FormTriples :
          LET o == documents_view(s, "POST", f[1], f[2], f[3])
          IN  (session[s].admin_logged_in /\ AddsOne(documents, o.documents)) =>
                  AddsOne(notifications, o.notifications)

\* C14, as claimed: for feedback, review and document creation, with any
\* subset of the channels enabled and any subset of the enabled channels
\* raising, the new record is persisted, one Notification row is written,
\* every enabled channel is attempted and the request ends with its redirect.
C14_Isolated ==
    \A enabled \in SUBSET Channels :
        \A raising \in SUBSET enabled :
            /\ LET o == feedback("text", "text")
               IN  /\ AddsOne(feedbacks, o.feedbacks)
                   /\ AddsOne(notifications, o.notifications)
                   /\ feedback_channels("text", "text", enabled, raising) = enabled
                   /\ o.resp = Redirect("feedback")
            /\ LET o == reviews_view("text", 3, "text", "text")
               IN  /\ AddsOne(reviews, o.reviews)
                   /\ AddsOne(notifications, o.notifications)
                   /\ reviews_channels("text", 3, "text", "text", enabled, raising)
                         = enabled
                   /\ o.resp = Redirect("reviews")
            /\ \A s \in Sessions :
                  LET o == documents_view(s, "POST", "text", "text", "text")
                  IN  (session[s].admin_logged_in /\ AddsOne(documents, o.documents)) =>
                          /\ AddsOne(notifications, o.notifications)
                          /\ documents_channels(s, "POST", "text", "text", "text",
                                                enabled, raising) = enabled
                          /\ o.resp = Redirect("documents")

(***************************************************************************)
(* Validation of the job-application form (SpecApplications).              *)
(***************************************************************************)
UsernameTaken(username) == \E u \in DOMAIN users : users[u].username = username

\* C15: a job-application submission whose desired_username is the username
\* of an existing AdminUser changes no table and redisplays the form; a
\* submission with all required fields and an unused username adds exactly
\* one JobApplication, with status pending.
C15_TakenRejected ==
    \A full_name \in FormTexts, u \in FormUsernames \cup {"ivanov"},
       p \in {"", " pw ", "pw"}, q \in FormTriples :
        LET o == job_application(full_name, u, p, q[1], q[2], q[3])
            complete == /\ Strip(full_name) # "" /\ Strip(u) # "" /\ Strip(p) # ""
                        /\ Strip(q[1]) # "" /\ Strip(q[2]) # "" /\ Strip(q[3]) # ""
        IN  /\ UsernameTaken(Strip(u)) =>
                  /\ TablesOf(o) = db
                  /\ o.resp = Render("job_application.html")
            /\ (complete /\ ~UsernameTaken(Strip(u))) =>
                  /\ AddsOne(applications, o.applications)
                  /\ o.applications[Len(o.applications)] =
                        [desired_username |-> Strip(u), desired_password |-> Strip(p),
                         status |-> "pending"]
                  /\ o.users = users

\* C15 witness: an application was submitted for a username that an account
\* has taken since
C15_Witness ==
    \E a \in DOMAIN applications :
        /\ applications[a].status = "pending"
        /\ UsernameTaken(applications[a].desired_username)

(***************************************************************************)
(* Validation in user management (SpecUsers).                              *)
(***************************************************************************)
HeldByOther(username, id) ==
    \E u \in DOMAIN users : u # id /\ users[u].username = username

\* C16, as claimed: when an admin creates or edits an AdminUser with an empty
\* username, or with a username held by a different AdminUser, the form is
\* redisplayed (no error response) and the AdminUser rows are unchanged.
C16_ValidationLocal ==
    \A s \in Sessions, name \in FormUsernames \cup {"ivanov"}, r \in FormRoles,
       p \in {"", "pw"} :
        IsAdminSession(s) =>
            /\ (Strip(name) = "" \/ UsernameTaken(Strip(name))) =>
                  LET o == admin_users_new(s, "POST", name, p,
                                           IF r = NoStr THEN "investigator" ELSE r, "salt")
                  IN  /\ o.resp = Render("admin/user_form.html")
                      /\ o.users = users
            /\ \A id \in DOMAIN users :
                  (Strip(name) = "" \/ HeldByOther(Strip(name), id)) =>
                      LET o == admin_users_edit(s, id, "POST", name, r, p, "salt")
                      IN  /\ o.resp = Render("admin/user_form.html")
                          /\ o.users = users

(***************************************************************************)
(* Reviews (SpecGate).                                                     *)
(***************************************************************************)
RatingCandidates == {NoRating, 0 - 2, 0, 1, 3, 5, 6, 7}

\* C17: every Review row has a rating in 1..5; a review submission whose
\* rating is missing or outside 1..5, or with another required field empty,
\* adds no Review row and no Notification row, and any other adds the Review
\* with the submitted rating.
C17_RatingChecked ==
    /\ \A r \in DOMAIN reviews : reviews[r].rating \in 1..5
    /\ \A f \in FormTriples, rating \in RatingCandidates :
          LET o == reviews_view(f[1], rating, f[2], f[3])
          IN  IF \/ rating \notin 1..5
                 \/ Strip(f[1]) = "" \/ Strip(f[2]) = "" \/ Strip(f[3]) = ""
              THEN /\ TablesOf(o) = db
                   /\ o.resp = Render("reviews.html")
              ELSE /\ AddsOne(reviews, o.reviews)
                   /\ o.reviews[Len(o.reviews)].rating = rating

\* C17 witness: a Review was accepted
C17_Witness ==
    \E r \in DOMAIN reviews : reviews[r].rating = 3 /\ Len(notifications) > 0

\* C18: every Review row is in the public listing, whatever its status; no
\* step removes a Review row or changes anything of it but its status, and
\* an approve or reject request changes nothing but that Review's status.
C18_Listed ==
    /\ \A r \in DOMAIN reviews : r \in all_reviews
    /\ \A s \in Sessions, r \in DOMAIN reviews :
          /\ admin_review_approve(s, r) \in
                {Respond(admin_review_approve(s, r).resp),
                 [Respond(admin_review_approve(s, r).resp) EXCEPT
                     !.reviews[r].status = "approved"]}
          /\ admin_review_reject(s, r) \in
                {Respond(admin_review_reject(s, r).resp),
                 [Respond(admin_review_reject(s, r).resp) EXCEPT
                     !.reviews[r].status = "rejected"]}

C18_Step ==
    \A r \in DOMAIN reviews :
        /\ r \in DOMAIN reviews'
        /\ reviews'[r].rating = reviews[r].rating
        /\ r \in all_reviews'

\* C18: the listing part holds in every state and the step part in every
\* step.
C18_Public == [](C18_Listed) /\ [][C18_Step]_vars

\* C18 witness: a rejected Review in the public listing
C18_Witness ==
    \E r \in all_reviews : reviews[r].status = "rejected"

(***************************************************************************)
(* The read flag of notifications (SpecGate).                              *)
(***************************************************************************)
Unread(tbl) == {n \in DOMAIN tbl : ~tbl[n].is_read}

\* C19, state part: a mark-all-read request of a logged-in session leaves
\* every Notification read and changes nothing else.
C19_AllRead ==
    \A s \in Sessions :
        session[s].admin_logged_in =>
            LET o == mark_all_notifications_read(s)
            IN  /\ Unread(o.notifications) = {}
                /\ Len(o.notifications) = Len(notifications)
                /\ <<o.users, o.documents, o.applications, o.feedbacks, o.reviews>>
                     = <<users, documents, applications, feedbacks, reviews>>

\* C19, step part: no step removes a Notification or sets a read one back to
\* unread, and the set of unread Notifications grows only in a step that adds
\* one Notification together with a new Feedback, Review, Document or
\* JobApplication row.
C19_Step ==
    /\ \A n \in DOMAIN notifications :
          /\ n \in DOMAIN notifications'
          /\ notifications[n].is_read => notifications'[n].is_read
    /\ ~(Unread(notifications') \subseteq Unread(notifications)) =>
          /\ AddsOne(notifications, notifications')
          /\ \/ AddsOne(feedbacks, feedbacks')
             \/ AddsOne(reviews, reviews')
             \/ AddsOne(documents, documents')
             \/ AddsOne(applications, applications')

\* C19: after mark-all-read every Notification is read, the unread count
\* stays zero until a submission creates a new Notification, and no step
\* sets a read Notification back to unread.
C19_ReadStays == [](C19_AllRead) /\ [][C19_Step]_vars

\* C19 witness: a new unread Notification after the earlier one was read
C19_Witness ==
    /\ Len(notifications) = 2
    /\ notifications[1].is_read
    /\ ~notifications[2].is_read

(***************************************************************************)
(* No way back to pending (SpecDocuments).                                 *)
(***************************************************************************)
\* C20: no step removes a Document, and a Document whose status is not
\* pending is not pending after any step (approve, reject, user deletion
\* with author reassignment, or any other request).
C20_NoReturn ==
    [][\A d \in DOMAIN documents :
          /\ d \in DOMAIN documents'
          /\ documents[d].status # "pending" => documents'[d].status # "pending"]_vars

\* C20 witness: a Document that was approved, then rejected, and whose last
\* reviewer was deleted afterwards
C20_Witness ==
    \E d \in DOMAIN documents :
        /\ documents[d].status = "rejected"
        /\ documents[d].approved_at # NoStr
        /\ documents[d].approved_by_id = NoId

(***************************************************************************)
(* Feedback triage (SpecGate).                                             *)
(***************************************************************************)
FeedbackStatuses == {"new", "in_progress", "done"}

\* C21, as claimed: every Feedback row has a status in {new, in_progress,
\* done}, and the triage operation stores only one of these three values for
\* any submitted status value.
C21_FeedbackStatus ==
    /\ \A f \in DOMAIN feedbacks : feedbacks[f].status \in FeedbackStatuses
    /\ \A s \in Sessions, f \in DOMAIN feedbacks, st \in FormStatuses :
          admin_feedback_detail(s, f, "POST", st).feedbacks[f].status
              \in FeedbackStatuses

(***************************************************************************)
(* Roles stored by user management (SpecUsers).                            *)
(***************************************************************************)
RoleCandidates == roles_choices \cup {"superuser", ""}

RolesValid(tbl) == \A u \in DOMAIN tbl : tbl[u].role \in roles_choices

\* C22, as claimed: every AdminUser's role is one of the six values of
\* roles_choices, and stays so for any role value submitted to the user
\* create and user edit operations.
C22_RoleValid ==
    /\ RolesValid(users)
    /\ \A s \in Sessions, name \in FormUsernames, r \in RoleCandidates :
          /\ RolesValid(admin_users_new(s, "POST", name, "pw", r, "salt").users)
          /\ \A id \in DOMAIN users :
                RolesValid(admin_users_edit(s, id, "POST", name, r, "", "salt").users)

(***************************************************************************)
(* References from Document to AdminUser (SpecDocuments).                  *)
(***************************************************************************)
\* C23, as claimed: every Document's author_id is the id of an existing
\* AdminUser, and so is every non-null approved_by_id.
C23_Referential ==
    \A d \in DOMAIN documents :
        /\ documents[d].author_id \in DOMAIN users
        /\ documents[d].approved_by_id # NoId =>
              documents[d].approved_by_id \in DOMAIN users

(***************************************************************************)
(* Deciding a job application (SpecApplications).                          *)
(***************************************************************************)
RejectOutcome(s, a) == admin_job_application_detail(s, a, "POST", "reject", "salt")

\* C24, as claimed: an approve request on an application that is already
\* approved or rejected adds no AdminUser and leaves its status unchanged,
\* and a reject request on an approved application leaves it approved.
C24_DecidedOnce ==
    \A s \in Sessions, a \in DOMAIN applications :
        session[s].admin_logged_in =>
            /\ applications[a].status \in {"approved", "rejected"} =>
                  /\ ApproveOutcome(s, a).users = users
                  /\ ApproveOutcome(s, a).applications[a].status = applications[a].status
            /\ applications[a].status = "approved" =>
                  RejectOutcome(s, a).applications[a].status = "approved"

(***************************************************************************)
(* The last admin (SpecUsers).                                             *)
(***************************************************************************)
\* C25, as claimed: at least one AdminUser with role admin exists in every
\* state, whatever user edit and user delete requests are served.
C25_AdminExists ==
    \E u \in DOMAIN users : users[u].role = "admin"

====
